---- MODULE Spec2Model ----
(***************************************************************************)
(* Model of the rotary sample holder controller:                           *)
(*   src/app/src/main/python/arduino_controller.py  (ArduinoController)    *)
(*   src/sample_holder_controller.py          (SampleHolderController)     *)
(*                                                                         *)
(* One action per public operation of SampleHolderController.  Every       *)
(* operation is synchronous, so an action is the whole call: every         *)
(* run[ ... ] command it writes, every reply it decodes and every          *)
(* assignment it makes.  The firmware is the environment: for each command *)
(* written it answers with status ok or error, or the decode cycle ends in *)
(* a read timeout or in a payload json.loads rejects.                      *)
(***************************************************************************)
EXTENDS Integers, Sequences, FiniteSets, TLC

VARIABLES
    samples,      \* self.samples: number of sample spaces, fixed at construction
    DEFAULT_SPR,  \* self.DEFAULT_SPR: configured steps per revolution
    SPR,          \* self.SPR: None until the first connect
    position,     \* self.position: None until the first enable/home
    is_open,      \* self.__inst.is_open: the serial port is open
    dev_enabled,  \* firmware side: the motor driver is enabled
    op,           \* name of the operation that produced this state
    arg,          \* its argument (None when it takes none)
    err,          \* the exception it raised ("none" when it returned)
    io,           \* the commands it wrote with the outcome of each decode cycle
    pos0,         \* self.position when the operation was called
    dist,         \* the sample-step distance goto handed to step (None otherwise)
    ret,          \* what the operation returned (None when it raised)
    spr_reply,    \* the value the firmware answered to get_spr in this operation
    pos_reply,    \* the value the firmware answered to get_pos in this operation
    port,         \* self.__port
    baud,         \* self.__baud
    timeout,      \* self.__timeout
    inst_port,    \* self.__inst.port: the setting the transport works with
    inst_baud,    \* self.__inst.baudrate
    inst_timeout, \* self.__inst.timeout
    read_attempts,\* self.read_attempts
    rd_pc,        \* where run is: "idle", "reading" (in the while loop), "done"
    rd_resp,      \* read_response: resp, the bytes accumulated
    rd_curr,      \* read_response: curr, the last read (None before the first)
    rd_attempts,  \* read_response: attempts
    rd_wire,      \* the bytes coming in during this run: those left unread from
                  \* earlier answers, then the answer to the command
    rd_stale,     \* how many of them, at the head, are left from earlier answers
    rd_reads,     \* number of reads made in this decode cycle
    rd_idle,      \* number of those reads that returned nothing
    rd_run,       \* length of the current run of consecutive idle reads
    rd_maxrun,    \* length of the longest such run in this decode cycle
    rd_err,       \* the exception run raised ("none" when it returned)
    rd_ret,       \* what run returned
    rd_json,      \* what json.loads made of the buffer (None when not reached)
    termination_char, \* self.termination_char (None when not set)
    written       \* the bytes the last run handed to self.__inst.write

\* The controller and the motor.
ctlVars == <<samples, DEFAULT_SPR, SPR, position, dev_enabled, pos0, dist,
             spr_reply, pos_reply>>

\* The connection parameters and the transport's active settings.
setVars == <<port, baud, timeout>>

instVars == <<inst_port, inst_baud, inst_timeout>>

\* One run of ArduinoController.run, byte by byte.
readVars == <<read_attempts, rd_pc, rd_resp, rd_curr, rd_attempts, rd_wire,
              rd_stale,
              rd_reads, rd_idle, rd_run, rd_maxrun, rd_err, rd_ret, rd_json>>

\* What run writes.
wireVars == <<termination_char, written>>

vars == <<samples, DEFAULT_SPR, SPR, position, is_open, dev_enabled,
          op, arg, err, io, pos0, dist, ret, spr_reply, pos_reply, port, baud, timeout,
          inst_port, inst_baud, inst_timeout, read_attempts, rd_pc, rd_resp,
          rd_curr, rd_attempts, rd_wire, rd_reads, rd_idle, rd_run, rd_maxrun,
          rd_err, rd_ret, rd_json, termination_char, written, rd_stale>>

(***************************************************************************)
(* Python's None and an optional value.                                    *)
(***************************************************************************)
None == <<>>

Some(v) == <<v>>

Val(x) == x[1]

(***************************************************************************)
(* Bounds of the model and the constructor's defaults.                     *)
(***************************************************************************)
MaxWidth == 2

\* read_attempts up to this many, and at most this many bytes from the device
\* in one decode cycle.
MaxReadAttempts == 3

MaxBytes == 4

\* ArduinoController.__init__: read_attempts = 3.
DefaultReadAttempts == 3

\* Connection parameters a caller may configure.
Ports == {"COM3", "COM4"}

Bauds == {9600, 115200}

Timeouts == {2, 10}

\* Sample counts the holder is constructed with: one odd, one even.
SampleCounts == {3, 4}

\* Constructor arguments (samples, spr): each sample count with every sector
\* width up to MaxWidth.
Configs ==
    {[samples |-> n, spr |-> n * w] : n \in SampleCounts, w \in 1..MaxWidth}

\* Steps per revolution a firmware may answer to get_spr: the multiples of the
\* sample count up to MaxWidth sectors wide.
DeviceSPRs == {samples * w : w \in 1..MaxWidth}

\* Positions a firmware may answer to get_pos: within the revolution.
ReportedPositions == IF SPR = None THEN {0} ELSE 0..(Val(SPR) - 1)

\* Arguments the caller passes to move and offset, to step, and to goto.
MoveSteps == {-1, 4}

StepNums == {-1, 1}

GotoNums == -1..(samples + 1)

\* How the decode cycle after a written command ends: a reply with status ok
\* or error, attempts == read_attempts, or bytes json.loads rejects.
Status == {"ok", "error", "timeout", "malformed"}

\* The outcomes of the n decode cycles an operation may run.  An exception ends
\* the operation, so nothing after the first failed cycle is consumed.
Scripts(n) ==
    {s \in [1..n -> Status] :
        \A i \in 1..n : \A j \in 1..n : (i < j /\ s[i] # "ok") => s[j] = "ok"}

(***************************************************************************)
(* ArduinoController.run                                                   *)
(***************************************************************************)
\* The exception run raises for a decode cycle ending in st.
StatusErr(st) ==
    CASE st = "ok"        -> "none"
      [] st = "error"     -> "CommandError"
      [] st = "timeout"   -> "ReadTimeout"
      [] st = "malformed" -> "Malformed"

\* Mutant of Transact: a command whose decode cycle timed out is written once
\* more.
TransactRetry(name, args, st, val) ==
    [err |-> StatusErr(st),
     io  |-> IF st = "timeout"
             THEN <<[name |-> name, args |-> args, status |-> st],
                    [name |-> name, args |-> args, status |-> st]>>
             ELSE <<[name |-> name, args |-> args, status |-> st]>>,
     ret |-> IF st = "ok" THEN val ELSE None]

\* run on an open port: the command is written, one decode cycle follows, and
\* the 'response' value is returned unless the status is error.
Transact(name, args, st, val) ==
    [err |-> StatusErr(st),
     io  |-> <<[name |-> name, args |-> args, status |-> st]>>,
     ret |-> IF st = "ok" THEN val ELSE None]

\* run: serial.Serial.write raises on a closed port before any byte is sent.
Run(name, args, st, val) ==
    IF ~is_open
    THEN [err |-> "PortNotOpen", io |-> <<>>, ret |-> None]
    ELSE Transact(name, args, st, val)

(***************************************************************************)
(* SampleHolderController: the pure parts                                  *)
(***************************************************************************)
\* The sample property for a known position p:
\*   math.floor( (p + (SPR/samples)/2) / (SPR/samples) )
\* computed exactly as floor( (2*samples*p + SPR) / (2*SPR) ).
SampleOf(p) == (2 * samples * p + Val(SPR)) \div (2 * Val(SPR))

\* self.sample
Sample(pos) == IF pos = None THEN None ELSE Some(SampleOf(Val(pos)))

\* Mutant of StepsOf: the sample steps are handed on as motor steps.
StepsOfRaw(num) == num

\* step: num*( self.SPR/ self.samples ), SPR a multiple of samples.
StepsOf(num) == num * (Val(SPR) \div samples)

\* Mutant of GotoDistance: always forward, never the shorter way round.
GotoDistanceForward(num, s) == (num - s) % samples

\* goto: ( num - self.sample )% self.samples, minus samples when it exceeds
\* samples/2.
GotoDistance(num, s) ==
    LET steps == (num - s) % samples
    IN  IF 2 * steps > samples THEN steps - samples ELSE steps

\* Mutant of IsEnabledCall: any reply counts as enabled (the truth value of a
\* non-empty string instead of the comparison with '1').
IsEnabledCallTruthy(st) ==
    LET r == Run("is_enabled", <<>>, st, IF dev_enabled THEN "1" ELSE "0")
    IN  [err |-> r.err, io |-> r.io, ret |-> (r.err = "none")]

\* is_enabled: the firmware answers '1' when the motor is enabled.
IsEnabledCall(st) ==
    LET r == Run("is_enabled", <<>>, st, IF dev_enabled THEN "1" ELSE "0")
    IN  [err |-> r.err, io |-> r.io, ret |-> (r.err = "none" /\ r.ret = "1")]

\* Mutant of MoveCall: the position is updated before the reply to move is
\* looked at.
MoveCallEager(pos, steps, s) ==
    LET e == IsEnabledCall(s[1])
        r == Run("move", <<steps>>, s[2], None)
    IN  IF e.err # "none"
        THEN [err |-> e.err, io |-> e.io, position |-> pos]
        ELSE IF ~e.ret
        THEN [err |-> "NotEnabled", io |-> e.io, position |-> pos]
        ELSE IF pos = None \/ SPR = None
        THEN [err |-> "TypeError", io |-> e.io \o r.io, position |-> pos]
        ELSE [err |-> r.err, io |-> e.io \o r.io,
              position |-> Some((Val(pos) + steps) % Val(SPR))]

\* Mutant of MoveCall: the move command is written before is_enabled is asked.
MoveCallWriteFirst(pos, steps, s) ==
    LET r == Run("move", <<steps>>, s[1], None)
        e == IsEnabledCall(s[2])
    IN  IF r.err # "none"
        THEN [err |-> r.err, io |-> r.io, position |-> pos]
        ELSE IF e.err # "none"
        THEN [err |-> e.err, io |-> r.io \o e.io, position |-> pos]
        ELSE IF ~e.ret
        THEN [err |-> "NotEnabled", io |-> r.io \o e.io, position |-> pos]
        ELSE IF pos = None \/ SPR = None
        THEN [err |-> "TypeError", io |-> r.io \o e.io, position |-> pos]
        ELSE [err |-> "none", io |-> r.io \o e.io,
              position |-> Some((Val(pos) + steps) % Val(SPR))]

\* move( steps ) called with self.position = pos; s is the script of replies.
MoveCall(pos, steps, s) ==
    LET e == IsEnabledCall(s[1])
        r == Run("move", <<steps>>, s[2], None)
    IN  IF e.err # "none"
        THEN [err |-> e.err, io |-> e.io, position |-> pos]
        ELSE IF ~e.ret
        THEN [err |-> "NotEnabled", io |-> e.io, position |-> pos]
        ELSE IF r.err # "none"
        THEN [err |-> r.err, io |-> e.io \o r.io, position |-> pos]
        ELSE IF pos = None \/ SPR = None
        THEN [err |-> "TypeError", io |-> e.io \o r.io, position |-> pos]
        ELSE [err |-> "none", io |-> e.io \o r.io,
              position |-> Some((Val(pos) + steps) % Val(SPR))]

\* step( num )
StepCall(pos, num, s) ==
    IF SPR = None
    THEN [err |-> "TypeError", io |-> <<>>, position |-> pos]
    ELSE MoveCall(pos, StepsOf(num), s)

\* Mutant of GotoCall: the range check rejects num = samples as well.
GotoCallStrict(pos, num, s) ==
    IF num < 0 \/ num >= samples
    THEN [err |-> "InvalidSample", io |-> <<>>, position |-> pos, dist |-> None]
    ELSE IF pos = None \/ SPR = None
    THEN [err |-> "TypeError", io |-> <<>>, position |-> pos, dist |-> None]
    ELSE LET d == GotoDistance(num, SampleOf(Val(pos)))
             m == StepCall(pos, d, s)
         IN  [err |-> m.err, io |-> m.io, position |-> m.position,
              dist |-> Some(d)]

\* goto( num ): the range check, the distance, then step.
GotoCall(pos, num, s) ==
    IF num < 0 \/ num > samples
    THEN [err |-> "InvalidSample", io |-> <<>>, position |-> pos, dist |-> None]
    ELSE IF pos = None \/ SPR = None
    THEN [err |-> "TypeError", io |-> <<>>, position |-> pos, dist |-> None]
    ELSE LET d == GotoDistance(num, SampleOf(Val(pos)))
             m == StepCall(pos, d, s)
         IN  [err |-> m.err, io |-> m.io, position |-> m.position,
              dist |-> Some(d)]

\* Mutant of OffsetCall: the position recorded before the move is not put
\* back.
OffsetCallNoRestore(pos, num, s) ==
    LET m == MoveCall(pos, num, s)
        r == Run("offset", <<-num>>, s[3], None)
    IN  IF m.err # "none"
        THEN m
        ELSE [err |-> r.err, io |-> m.io \o r.io, position |-> m.position]

\* offset( num ): move, then the firmware's offset with -num, then the
\* position recorded before the move is put back.
OffsetCall(pos, num, s) ==
    LET m == MoveCall(pos, num, s)
        r == Run("offset", <<-num>>, s[3], None)
    IN  IF m.err # "none"
        THEN m
        ELSE IF r.err # "none"
        THEN [err |-> r.err, io |-> m.io \o r.io, position |-> m.position]
        ELSE [err |-> "none", io |-> m.io \o r.io, position |-> pos]

(***************************************************************************)
(* The state after SampleHolderController( port, samples, spr ).           *)
(***************************************************************************)
\* ArduinoController.__init__ with port p, baud b, timeout t, read_attempts n:
\* the parameters are stored, the transport is a fresh serial.Serial() (no
\* port, 9600 baud, no timeout, closed).
InitChannel(p, b, t, n) ==
    /\ port = p
    /\ baud = b
    /\ timeout = t
    /\ inst_port = None
    /\ inst_baud = Some(9600)
    /\ inst_timeout = None
    /\ is_open = FALSE
    /\ read_attempts = n

\* No run in progress.
InitRead ==
    /\ rd_pc = "idle"
    /\ rd_resp = <<>>
    /\ rd_curr = None
    /\ rd_attempts = 0
    /\ rd_wire = <<>>
    /\ rd_stale = 0
    /\ rd_reads = 0
    /\ rd_idle = 0
    /\ rd_run = 0
    /\ rd_maxrun = 0
    /\ rd_err = "none"
    /\ rd_ret = None
    /\ rd_json = None

\* ArduinoController.__init__ with termination_char tc; nothing written yet.
InitWire(tc) ==
    /\ termination_char = tc
    /\ written = None

\* SampleHolderController.__init__ after the base class's.
InitController(c) ==
    /\ samples = c.samples
    /\ DEFAULT_SPR = c.spr
    /\ SPR = None
    /\ position = None
    /\ dev_enabled = FALSE
    /\ op = "init"
    /\ arg = None
    /\ err = "none"
    /\ io = <<>>
    /\ pos0 = None
    /\ dist = None
    /\ ret = None
    /\ spr_reply = None
    /\ pos_reply = None

Init ==
    /\ \E c \in Configs : InitController(c)
    /\ InitChannel("COM3", 9600, 10, DefaultReadAttempts)
    /\ InitRead
    /\ InitWire(Some("\n"))

\* What every operation records about itself.
Called(name, a, e, log, d) ==
    /\ op' = name
    /\ arg' = a
    /\ err' = e
    /\ io' = log
    /\ pos0' = position
    /\ dist' = d
    /\ UNCHANGED <<ret, setVars, readVars, wireVars>>

(***************************************************************************)
(* The operations.                                                         *)
(***************************************************************************)
\* Mutant of AlreadyOpen: connect never finds the port open.
AlreadyOpenNever == FALSE

\* ArduinoController.connect: if self.__inst.is_open: raise 'Already connected'
AlreadyOpen == is_open

\* ArduinoController.connect: the stored parameters are handed to the
\* transport, which is then opened.
OpenPort ==
    /\ inst_baud' = Some(baud)
    /\ inst_port' = Some(port)
    /\ inst_timeout' = Some(timeout)
    /\ is_open' = TRUE

\* Mutant of ConnectSPR: a failed query leaves SPR as it was.
ConnectSPRKeep(r) == IF r.err = "none" THEN r.ret ELSE SPR

\* connect: self.SPR = self.get_spr(), except: self.SPR = self.DEFAULT_SPR
ConnectSPR(r) == IF r.err = "none" THEN r.ret ELSE Some(DEFAULT_SPR)

\* connect(): ArduinoController.connect, then get_spr with the fallback to
\* DEFAULT_SPR.  Opening the port may reset the board.
Connect ==
    IF AlreadyOpen
    THEN /\ Called("connect", None, "AlreadyConnected", <<>>, None)
         /\ UNCHANGED <<samples, DEFAULT_SPR, SPR, position, is_open, dev_enabled>>
         /\ UNCHANGED instVars
         /\ spr_reply' = None
         /\ pos_reply' = None
    ELSE \E st \in Status, v \in DeviceSPRs, reset \in BOOLEAN :
            LET r == Transact("get_spr", <<>>, st, Some(v))
            IN  /\ OpenPort
                /\ dev_enabled' = (dev_enabled /\ ~reset)
                /\ SPR' = ConnectSPR(r)
                /\ spr_reply' = r.ret
                /\ pos_reply' = None
                /\ Called("connect", None,
                          IF r.err = "none" THEN "none" ELSE "SprQueryFailed",
                          r.io, None)
                /\ UNCHANGED <<samples, DEFAULT_SPR, position>>

\* disconnect(): closes the port and nothing else.
Disconnect ==
    /\ is_open' = FALSE
    /\ Called("disconnect", None, "none", <<>>, None)
    /\ UNCHANGED <<samples, DEFAULT_SPR, SPR, position, dev_enabled>>
    /\ UNCHANGED instVars
    /\ spr_reply' = None
    /\ pos_reply' = None

\* Mutant of Enable: get_pos is asked even though enable failed.
EnableUnchecked ==
    \E s \in Scripts(2) :
    \E v \in IF s[1] = "ok" /\ s[2] = "ok" THEN ReportedPositions ELSE {0} :
        LET r1 == Run("enable", <<>>, s[1], None)
            r2 == Run("get_pos", <<>>, s[2], Some(v))
        IN  /\ dev_enabled' = (dev_enabled \/ (is_open /\ s[1] = "ok"))
            /\ position' = IF r2.err = "none" THEN r2.ret ELSE position
            /\ pos_reply' = r2.ret
            /\ Called("enable", None, r2.err, r1.io \o r2.io, None)
            /\ UNCHANGED <<samples, DEFAULT_SPR, SPR, is_open>>
            /\ UNCHANGED instVars
            /\ spr_reply' = None

\* enable(): run( 'enable' ), then self.position = run( 'get_pos' ).
Enable ==
    \E s \in Scripts(2) :
    \E v \in IF s[1] = "ok" /\ s[2] = "ok" THEN ReportedPositions ELSE {0} :
        LET r1 == Run("enable", <<>>, s[1], None)
            r2 == Run("get_pos", <<>>, s[2], Some(v))
        IN  /\ dev_enabled' = (dev_enabled \/ (is_open /\ s[1] = "ok"))
            /\ IF r1.err # "none"
               THEN /\ position' = position
                    /\ pos_reply' = None
                    /\ Called("enable", None, r1.err, r1.io, None)
               ELSE /\ position' = IF r2.err = "none" THEN r2.ret ELSE position
                    /\ pos_reply' = r2.ret
                    /\ Called("enable", None, r2.err, r1.io \o r2.io, None)
            /\ UNCHANGED <<samples, DEFAULT_SPR, SPR, is_open>>
            /\ UNCHANGED instVars
            /\ spr_reply' = None

\* disable(): run( 'disable' ) through __getattr__.
Disable ==
    \E st \in Status :
        LET r == Run("disable", <<>>, st, None)
        IN  /\ dev_enabled' = (dev_enabled /\ ~(is_open /\ st = "ok"))
            /\ Called("disable", None, r.err, r.io, None)
            /\ UNCHANGED <<samples, DEFAULT_SPR, SPR, position, is_open>>
            /\ UNCHANGED instVars
            /\ spr_reply' = None
            /\ pos_reply' = None

\* Mutant of Home: the position is left as it was.
HomeKeepsPosition ==
    \E st \in Status :
        LET r == Run("home", <<>>, st, None)
        IN  /\ position' = position
            /\ Called("home", None, r.err, r.io, None)
            /\ UNCHANGED <<samples, DEFAULT_SPR, SPR, is_open, dev_enabled>>
            /\ UNCHANGED instVars
            /\ spr_reply' = None
            /\ pos_reply' = None

\* home(): run( 'home' ), then self.position = 0.
Home ==
    \E st \in Status :
        LET r == Run("home", <<>>, st, None)
        IN  /\ position' = IF r.err = "none" THEN Some(0) ELSE position
            /\ Called("home", None, r.err, r.io, None)
            /\ UNCHANGED <<samples, DEFAULT_SPR, SPR, is_open, dev_enabled>>
            /\ UNCHANGED instVars
            /\ spr_reply' = None
            /\ pos_reply' = None

\* is_enabled()
IsEnabled ==
    \E st \in Status :
        LET r == IsEnabledCall(st)
        IN  /\ Called("is_enabled", None, r.err, r.io, None)
            /\ UNCHANGED <<samples, DEFAULT_SPR, SPR, position, is_open, dev_enabled>>
            /\ UNCHANGED instVars
            /\ spr_reply' = None
            /\ pos_reply' = None

\* move( steps )
Move ==
    \E steps \in MoveSteps, s \in Scripts(2) :
        LET r == MoveCall(position, steps, s)
        IN  /\ position' = r.position
            /\ Called("move", Some(steps), r.err, r.io, None)
            /\ UNCHANGED <<samples, DEFAULT_SPR, SPR, is_open, dev_enabled>>
            /\ UNCHANGED instVars
            /\ spr_reply' = None
            /\ pos_reply' = None

\* step( num )
Step ==
    \E num \in StepNums, s \in Scripts(2) :
        LET r == StepCall(position, num, s)
        IN  /\ position' = r.position
            /\ Called("step", Some(num), r.err, r.io, None)
            /\ UNCHANGED <<samples, DEFAULT_SPR, SPR, is_open, dev_enabled>>
            /\ UNCHANGED instVars
            /\ spr_reply' = None
            /\ pos_reply' = None

\* goto( num )
Goto ==
    \E num \in GotoNums, s \in Scripts(2) :
        LET r == GotoCall(position, num, s)
        IN  /\ position' = r.position
            /\ Called("goto", Some(num), r.err, r.io, r.dist)
            /\ UNCHANGED <<samples, DEFAULT_SPR, SPR, is_open, dev_enabled>>
            /\ UNCHANGED instVars
            /\ spr_reply' = None
            /\ pos_reply' = None

\* offset( num )
Offset ==
    \E num \in MoveSteps, s \in Scripts(3) :
        LET r == OffsetCall(position, num, s)
        IN  /\ position' = r.position
            /\ Called("offset", Some(num), r.err, r.io, None)
            /\ UNCHANGED <<samples, DEFAULT_SPR, SPR, is_open, dev_enabled>>
            /\ UNCHANGED instVars
            /\ spr_reply' = None
            /\ pos_reply' = None

Next ==
    \/ Connect
    \/ Disconnect
    \/ Enable
    \/ Disable
    \/ Home
    \/ IsEnabled
    \/ Move
    \/ Step
    \/ Goto
    \/ Offset

Spec == Init /\ [][Next]_vars

(***************************************************************************)
(* ArduinoController: the connection parameters.  SpecChannel is the base  *)
(* class on its own: connect, disconnect, the port, baud and timeout       *)
(* properties, the connected property, and is_connected(), which the class *)
(* does not define, so that __getattr__ turns it into run('is_connected'). *)
(***************************************************************************)
\* What an operation of the base class records about itself.
CalledChannel(name, a, e, log, r) ==
    /\ op' = name
    /\ arg' = a
    /\ err' = e
    /\ io' = log
    /\ ret' = r
    /\ UNCHANGED <<ctlVars, readVars, wireVars>>

\* 'response' values a firmware may send for is_connected: a non-empty string,
\* an empty one, or no 'response' key at all (run then returns None).
IsConnectedReplies == {Some("1"), Some(""), None}

\* Python's truth value of what run returned.
Truthy(x) == x # None /\ Val(x) # ""

\* self.is_connected(): not an attribute of the class, so __getattr__ returns
\* call, and the call is self.run( 'is_connected' ).
IsConnectedCall(st, val) == Run("is_connected", <<>>, st, val)

\* The guard of the three setters: if self.is_connected(): raise RuntimeError.
\* g is the outcome of the is_connected() call.
SetterGuard(g) ==
    IF g.err # "none" THEN g.err
    ELSE IF Truthy(g.ret) THEN "ConfigurationLocked"
    ELSE "none"

\* The port, baud and timeout getters; timeout returns self.__baud.
ParamGet(name) ==
    CASE name = "port"    -> port
      [] name = "baud"    -> baud
      [] name = "timeout" -> baud

\* ArduinoController.connect
ArduinoConnect ==
    IF AlreadyOpen
    THEN /\ CalledChannel("connect", None, "AlreadyConnected", <<>>, None)
         /\ UNCHANGED <<is_open, setVars, instVars>>
    ELSE /\ OpenPort
         /\ CalledChannel("connect", None, "none", <<>>, None)
         /\ UNCHANGED setVars

\* ArduinoController.disconnect
ArduinoDisconnect ==
    /\ is_open' = FALSE
    /\ CalledChannel("disconnect", None, "none", <<>>, None)
    /\ UNCHANGED <<setVars, instVars>>

\* port = p
SetPort ==
    \E p \in Ports, st \in Status, val \in IsConnectedReplies :
        LET g == IsConnectedCall(st, val)
            e == SetterGuard(g)
        IN  /\ port' = IF e = "none" THEN p ELSE port
            /\ inst_port' = IF e = "none" THEN Some(p) ELSE inst_port
            /\ CalledChannel("set_port", Some(p), e, g.io, None)
            /\ UNCHANGED <<is_open, baud, timeout, inst_baud, inst_timeout>>

\* baud = b
SetBaud ==
    \E b \in Bauds, st \in Status, val \in IsConnectedReplies :
        LET g == IsConnectedCall(st, val)
            e == SetterGuard(g)
        IN  /\ baud' = IF e = "none" THEN b ELSE baud
            /\ inst_baud' = IF e = "none" THEN Some(b) ELSE inst_baud
            /\ CalledChannel("set_baud", Some(b), e, g.io, None)
            /\ UNCHANGED <<is_open, port, timeout, inst_port, inst_timeout>>

\* timeout = t: self.__timeout is stored, then self.__inst.timeout( timeout )
\* calls a number and raises TypeError.
SetTimeout ==
    \E t \in Timeouts, st \in Status, val \in IsConnectedReplies :
        LET g == IsConnectedCall(st, val)
            e == SetterGuard(g)
        IN  /\ timeout' = IF e = "none" THEN t ELSE timeout
            /\ CalledChannel("set_timeout", Some(t),
                             IF e = "none" THEN "TypeError" ELSE e, g.io, None)
            /\ UNCHANGED <<is_open, port, baud, instVars>>

\* Reading port, baud or timeout.
GetParam ==
    \E name \in {"port", "baud", "timeout"} :
        /\ CalledChannel("get_" \o name, None, "none", <<>>, Some(ParamGet(name)))
        /\ UNCHANGED <<is_open, setVars, instVars>>

\* is_connected()
IsConnected ==
    \E st \in Status, val \in IsConnectedReplies :
        LET g == IsConnectedCall(st, val)
        IN  /\ CalledChannel("is_connected", None, g.err, g.io, g.ret)
            /\ UNCHANGED <<is_open, setVars, instVars>>

\* The connected property: self.__inst.is_open.
Connected ==
    /\ CalledChannel("connected", None, "none", <<>>, Some(is_open))
    /\ UNCHANGED <<is_open, setVars, instVars>>

InitChannelSpec ==
    /\ \E c \in Configs : InitController(c)
    /\ \E p \in Ports, b \in Bauds, t \in Timeouts :
           InitChannel(p, b, t, DefaultReadAttempts)
    /\ InitRead
    /\ InitWire(Some("\n"))

NextChannel ==
    \/ ArduinoConnect
    \/ ArduinoDisconnect
    \/ SetPort
    \/ SetBaud
    \/ SetTimeout
    \/ GetParam
    \/ IsConnected
    \/ Connected

SpecChannel == InitChannelSpec /\ [][NextChannel]_vars

(***************************************************************************)
(* ArduinoController.run and read_response, one read at a time.            *)
(*                                                                         *)
(* The device answers a command with a sequence of bytes; only the bytes   *)
(* that matter to the framing are told apart: "{", "}" and "x", any other  *)
(* byte.  Nothing in run or read_response discards input, so the bytes of  *)
(* an answer that an earlier run left unread come in first: rd_wire is     *)
(* those bytes followed by the answer to this command.  Each               *)
(* self.__inst.read() returns the next byte of rd_wire, or b'' when the    *)
(* byte has not arrived within the timeout (it always returns b'' once     *)
(* rd_wire is exhausted).                                                  *)
(***************************************************************************)
Bytes == {"{", "}", "x"}

Wires == UNION {[1..n -> Bytes] : n \in 0..MaxBytes}

\* What a JSON object of the firmware holds, as far as run looks at it.
Messages ==
    [status   : {None, Some("ok"), Some("error"), Some("busy")},
     command  : BOOLEAN,
     response : {None, Some("1")},
     id       : {None, Some("7")}]

EmptyObject ==
    [status |-> None, command |-> FALSE, response |-> None, id |-> None]

\* while curr != b'}' and attempts < self.read_attempts
LoopGuardInclusive(curr, attempts) ==
    curr # Some("}") /\ attempts <= read_attempts

LoopGuard(curr, attempts) ==
    curr # Some("}") /\ attempts < read_attempts

\* if len( resp ) == resp_len: attempts += 1   (attempts is never reset)
NextAttemptsReset(attempts, grew) ==
    IF grew THEN 0 ELSE attempts + 1

NextAttemptsEvery(attempts, grew) ==
    attempts + 1

NextAttempts(attempts, grew) ==
    IF grew THEN attempts ELSE attempts + 1

\* json.loads( resp ): the values it can return for a buffer, None standing
\* for JSONDecodeError.  Only an object opened once and closed at the last
\* byte can be decoded; what its other bytes spell is the device's choice.
WellFramed(resp) ==
    /\ Len(resp) >= 2
    /\ resp[1] = "{"
    /\ resp[Len(resp)] = "}"
    /\ \A i \in 2..(Len(resp) - 1) : resp[i] = "x"

Payloads(resp) ==
    IF ~WellFramed(resp) THEN {None}
    ELSE IF Len(resp) = 2 THEN {Some(EmptyObject)}
    ELSE {Some(m) : m \in Messages} \cup {None}

\* run, after read_response returned the object j.
RunResultOkOnly(j) ==
    IF j.status = None THEN [err |-> "KeyError", ret |-> None]
    ELSE IF Val(j.status) # "ok"
    THEN [err |-> IF j.command THEN "CommandError" ELSE "KeyError",
          ret |-> None]
    ELSE [err |-> "none", ret |-> j.response \o j.id]

RunResult(j) ==
    IF j.status = None THEN [err |-> "KeyError", ret |-> None]
    ELSE IF Val(j.status) = "error"
    THEN [err |-> IF j.command THEN "CommandError" ELSE "KeyError",
          ret |-> None]
    ELSE [err |-> "none", ret |-> j.response \o j.id]

restVars == <<ctlVars, setVars, instVars, is_open, op, arg, err, io, ret,
              read_attempts, wireVars>>

\* The bytes of rd_wire no read has returned yet.
Unread == SubSeq(rd_wire, Len(rd_resp) + 1, Len(rd_wire))

\* run writes the command; read_response initialises its locals.
RunWrite ==
    /\ is_open
    /\ rd_pc \in {"idle", "done"}
    /\ \E w \in Wires :
          /\ Len(Unread) + Len(w) <= MaxBytes
          /\ rd_wire' = Unread \o w
    /\ rd_stale' = Len(Unread)
    /\ rd_pc' = "reading"
    /\ rd_resp' = <<>>
    /\ rd_curr' = None
    /\ rd_attempts' = 0
    /\ rd_reads' = 0
    /\ rd_idle' = 0
    /\ rd_run' = 0
    /\ rd_maxrun' = 0
    /\ rd_err' = "none"
    /\ rd_ret' = None
    /\ rd_json' = None
    /\ UNCHANGED restVars

\* One iteration of the while loop.
ReadStep ==
    /\ rd_pc = "reading"
    /\ LoopGuard(rd_curr, rd_attempts)
    /\ \E arrived \in BOOLEAN :
          LET got  == arrived /\ Len(rd_resp) < Len(rd_wire)
              curr == IF got THEN rd_wire[Len(rd_resp) + 1] ELSE ""
              run  == IF got THEN 0 ELSE rd_run + 1
          IN  /\ rd_curr' = Some(curr)
              /\ rd_resp' = IF got THEN Append(rd_resp, curr) ELSE rd_resp
              /\ rd_attempts' =
                     NextAttempts(rd_attempts, Len(rd_resp') # Len(rd_resp))
              /\ rd_reads' = rd_reads + 1
              /\ rd_idle' = IF got THEN rd_idle ELSE rd_idle + 1
              /\ rd_run' = run
              /\ rd_maxrun' = IF run > rd_maxrun THEN run ELSE rd_maxrun
    /\ UNCHANGED <<rd_pc, rd_wire, rd_stale, rd_err, rd_ret, rd_json>>
    /\ UNCHANGED restVars

\* The loop has ended: read_response raises or decodes, and run finishes.
RunReturn ==
    /\ rd_pc = "reading"
    /\ ~LoopGuard(rd_curr, rd_attempts)
    /\ rd_pc' = "done"
    /\ IF rd_attempts = read_attempts
       THEN rd_err' = "ReadTimeout" /\ rd_json' = None /\ rd_ret' = None
       ELSE \E j \in Payloads(rd_resp) :
               /\ rd_json' = j
               /\ IF j = None
                  THEN rd_err' = "MalformedResponse" /\ rd_ret' = None
                  ELSE /\ rd_err' = RunResult(Val(j)).err
                       /\ rd_ret' = RunResult(Val(j)).ret
    /\ UNCHANGED <<rd_resp, rd_curr, rd_attempts, rd_wire, rd_stale, rd_reads,
                   rd_idle, rd_run, rd_maxrun>>
    /\ UNCHANGED restVars

\* A controller built with the constructor's defaults, but for read_attempts.
InitReadSpec ==
    /\ InitController([samples |-> 10, spr |-> 200])
    /\ \E n \in 1..MaxReadAttempts : InitChannel("COM3", 9600, 10, n)
    /\ InitRead
    /\ InitWire(Some("\n"))

\* The port is opened once; run is then called again and again.
OpenOnce ==
    /\ ~is_open
    /\ ArduinoConnect

NextRead ==
    \/ OpenOnce
    \/ RunWrite
    \/ ReadStep
    \/ RunReturn

SpecRead == InitReadSpec /\ [][NextRead]_vars

(***************************************************************************)
(* read_response against a device that may send without end.               *)
(*                                                                         *)
(* Each read returns b'' or any byte, as the device pleases, so a decode   *)
(* cycle can be arbitrarily long.  To keep the state finite rd_resp holds  *)
(* the first MaxBytes bytes of the buffer only, and rd_reads is exact up   *)
(* to MaxBytes + MaxReadAttempts and keeps its parity beyond.              *)
(***************************************************************************)
\* The buffer after one more byte, as far as it is recorded.
Grow(resp, b) == IF Len(resp) < MaxBytes THEN Append(resp, b) ELSE resp

\* The number of reads after one more read.
CountRead(n) == IF n < MaxBytes + MaxReadAttempts THEN n + 1 ELSE n - 1

\* The buffer is longer than what rd_resp records of it (the loop has ended
\* on "}", which is then the last byte of the buffer).
Overflowed ==
    /\ Len(rd_resp) = MaxBytes
    /\ rd_resp[MaxBytes] # "}"

\* json.loads on the buffer, of which only the head is known when it is long.
StreamPayloads ==
    IF ~Overflowed THEN Payloads(rd_resp)
    ELSE IF rd_resp[1] = "{" /\ \A i \in 2..MaxBytes : rd_resp[i] = "x"
    THEN {Some(m) : m \in Messages} \cup {None}
    ELSE {None}

\* run writes the command; read_response initialises its locals.
StreamWrite ==
    /\ is_open
    /\ rd_pc \in {"idle", "done"}
    /\ rd_pc' = "reading"
    /\ rd_resp' = <<>>
    /\ rd_curr' = None
    /\ rd_attempts' = 0
    /\ rd_reads' = 0
    /\ rd_idle' = 0
    /\ rd_run' = 0
    /\ rd_maxrun' = 0
    /\ rd_err' = "none"
    /\ rd_ret' = None
    /\ rd_json' = None
    /\ UNCHANGED <<rd_wire, rd_stale>>
    /\ UNCHANGED restVars

\* One iteration of the while loop.
StreamRead ==
    /\ rd_pc = "reading"
    /\ LoopGuard(rd_curr, rd_attempts)
    /\ \E curr \in Bytes \cup {""} :
          LET got == curr # ""
              run == IF got THEN 0 ELSE rd_run + 1
          IN  /\ rd_curr' = Some(curr)
              /\ rd_resp' = IF got THEN Grow(rd_resp, curr) ELSE rd_resp
              /\ rd_attempts' = NextAttempts(rd_attempts, got)
              /\ rd_reads' = CountRead(rd_reads)
              /\ rd_idle' = IF got THEN rd_idle ELSE rd_idle + 1
              /\ rd_run' = run
              /\ rd_maxrun' = IF run > rd_maxrun THEN run ELSE rd_maxrun
    /\ UNCHANGED <<rd_pc, rd_wire, rd_stale, rd_err, rd_ret, rd_json>>
    /\ UNCHANGED restVars

\* The loop has ended: read_response raises or decodes, and run finishes.
StreamReturn ==
    /\ rd_pc = "reading"
    /\ ~LoopGuard(rd_curr, rd_attempts)
    /\ rd_pc' = "done"
    /\ IF rd_attempts = read_attempts
       THEN rd_err' = "ReadTimeout" /\ rd_json' = None /\ rd_ret' = None
       ELSE \E j \in StreamPayloads :
               /\ rd_json' = j
               /\ IF j = None
                  THEN rd_err' = "MalformedResponse" /\ rd_ret' = None
                  ELSE /\ rd_err' = RunResult(Val(j)).err
                       /\ rd_ret' = RunResult(Val(j)).ret
    /\ UNCHANGED <<rd_resp, rd_curr, rd_attempts, rd_wire, rd_stale, rd_reads,
                   rd_idle, rd_run, rd_maxrun>>
    /\ UNCHANGED restVars

NextStream ==
    \/ OpenOnce
    \/ StreamWrite
    \/ StreamRead
    \/ StreamReturn

\* The interpreter keeps executing the loop and the statements after it: a
\* read returns within the port's timeout, so neither step is put off for
\* ever.
SpecStream ==
    /\ InitReadSpec
    /\ [][NextStream]_vars
    /\ WF_vars(StreamRead)
    /\ WF_vars(StreamReturn)

(***************************************************************************)
(* ArduinoController.run: the bytes it writes.                             *)
(*                                                                         *)
(* An argument is an int or a float (step hands move a float); '{}'.format *)
(* renders an int n as its decimal digits and a float of integral value n  *)
(* as the digits followed by ".0".                                         *)
(***************************************************************************)
MaxArgs == 2

CommandNames == {"home", "move", "offset"}

ArgValues == {[t |-> "int", v |-> -1], [t |-> "int", v |-> 4],
              [t |-> "float", v |-> 2]}

ArgLists == UNION {[1..n -> ArgValues] : n \in 0..MaxArgs}

TerminationChars == {None, Some("\n")}

\* '{}'.format( arg )
Text(a) == IF a.t = "float" THEN ToString(a.v) \o ".0" ELSE ToString(a.v)

\* for arg in args: cmd += ', {}'.format( arg )
RECURSIVE AppendArgs(_, _)
AppendArgs(cmd, args) ==
    IF args = <<>> THEN cmd
    ELSE AppendArgs(cmd \o ", " \o Text(Head(args)), Tail(args))

\* Mutant of CmdText: the terminator is appended whether one is set or not.
CmdTextAlwaysTerminated(name, args) ==
    LET cmd == AppendArgs("run[ " \o name, args) \o " ]"
    IN  cmd \o "\n"

\* cmd = 'run[ name'; the arguments; ' ]'; the terminator when one is set.
CmdText(name, args) ==
    LET cmd == AppendArgs("run[ " \o name, args) \o " ]"
    IN  IF termination_char # None THEN cmd \o Val(termination_char) ELSE cmd

\* run( name, *args ) on the base class: the command is written (write raises
\* on a closed port and nothing is sent), then one decode cycle follows.
RunCommand ==
    \E name \in CommandNames, args \in ArgLists, st \in Status :
        LET r == Run(name, args, st, None)
        IN  /\ written' = IF is_open THEN Some(CmdText(name, args)) ELSE None
            /\ op' = "run"
            /\ arg' = Some([name |-> name, args |-> args])
            /\ err' = r.err
            /\ io' = r.io
            /\ ret' = r.ret
            /\ UNCHANGED <<ctlVars, readVars, setVars, instVars, is_open,
                           termination_char>>

\* An ArduinoController with or without a terminator; the fields of the
\* subclass stay at the constructor's defaults.
InitWriteSpec ==
    /\ InitController([samples |-> 10, spr |-> 200])
    /\ InitChannel("COM3", 9600, 10, DefaultReadAttempts)
    /\ InitRead
    /\ \E tc \in TerminationChars : InitWire(tc)

NextWrite ==
    \/ ArduinoConnect
    \/ ArduinoDisconnect
    \/ RunCommand

SpecWrite == InitWriteSpec /\ [][NextWrite]_vars

(***************************************************************************)
(* What the log of an operation shows.                                     *)
(***************************************************************************)
\* A command of this name was written.
Wrote(name) == \E i \in 1..Len(io) : io[i].name = name

\* Some reply decoded during the operation had status error.
SawError == \E i \in 1..Len(io) : io[i].status = "error"

\* Every reply decoded during the operation had status ok.
AllOk == \A i \in 1..Len(io) : io[i].status = "ok"

\* The operations that turn the motor, and those that talk to the firmware
\* about the motor at all.
MotionOps == {"move", "step", "goto", "offset"}

ControllerOps == {"enable", "home"} \cup MotionOps

(***************************************************************************)
(* C1.  The sample value is None exactly when Motor Position is None, and  *)
(* otherwise an integer in [0, sample_count): never sample_count itself.   *)
(* The code has no final "mod samples", so a position in the last half     *)
(* sector of the revolution yields sample_count.                           *)
(***************************************************************************)
C1_SampleInRange ==
    IF position = None
    THEN Sample(position) = None
    ELSE Sample(position) # None /\ Val(Sample(position)) \in 0..(samples - 1)

(***************************************************************************)
(* C2.  For every position p the sample value is                           *)
(*   floor((p + w/2) / w) mod sample_count,  w = SPR / sample_count,       *)
(* written here over the integers as floor((2p + w) / 2w) mod samples.     *)
(* The code computes the floor and stops there.                            *)
(***************************************************************************)
NearestSampleWrapped(p) ==
    LET w == Val(SPR) \div samples
    IN  ((2 * p + w) \div (2 * w)) % samples

C2_SampleIsNearestWrapped ==
    position # None => SampleOf(Val(position)) = NearestSampleWrapped(Val(position))

(***************************************************************************)
(* C3.  Round trip, as claimed: after goto(n) succeeds, for any accepted n *)
(* in 0..sample_count, the sample value equals n.  goto(sample_count) is   *)
(* accepted and lands on sample 0.                                         *)
(***************************************************************************)
C3_RoundTripExact ==
    (op = "goto" /\ err = "none") => Sample(position) = arg

\* C3 as amended: after goto(n) succeeds the sample value is congruent to n
\* modulo sample_count.
C3_RoundTripModulo ==
    (op = "goto" /\ err = "none") =>
        Val(Sample(position)) % samples = Val(arg) % samples

\* goto(sample_count) succeeded and turned the holder.
C3_Witness ==
    /\ op = "goto"
    /\ err = "none"
    /\ arg = Some(samples)
    /\ dist # Some(0)
    /\ position # pos0

(***************************************************************************)
(* C4.  Shortest path: the distance d that goto(num) hands to step has     *)
(* |d| <= sample_count/2 and is congruent to num - current_sample modulo   *)
(* sample_count, for odd and for even sample counts.                       *)
(***************************************************************************)
C4_ShortestPath ==
    (op = "goto" /\ dist # None) =>
        LET d  == Val(dist)
            s0 == SampleOf(Val(pos0))
        IN  /\ 2 * d <= samples
            /\ -2 * d <= samples
            /\ (d - (Val(arg) - s0)) % samples = 0

\* goto went backwards because forwards was the longer way, with an odd
\* sample count.
C4_Witness ==
    /\ op = "goto"
    /\ dist # None
    /\ Val(dist) < 0
    /\ samples % 2 = 1
    /\ err = "none"

(***************************************************************************)
(* C5.  Motor Position is None or an integer p with 0 <= p < SPR in every  *)
(* reachable state.  disconnect keeps the position and the next connect    *)
(* may adopt a smaller SPR.                                                *)
(***************************************************************************)
C5_PositionInRange ==
    position = None \/ (SPR # None /\ Val(position) \in 0..(Val(SPR) - 1))

(***************************************************************************)
(* C6.  As claimed: for enable, home, move, step, goto and offset, a reply *)
(* with status error makes the operation fail with the command error and   *)
(* leaves Motor Position as it was before the operation.  offset keeps the *)
(* position its move has set when the offset command itself is refused.    *)
(***************************************************************************)
C6_ErrorKeepsPosition ==
    (op \in ControllerOps /\ SawError) =>
        (err = "CommandError" /\ position = pos0)

\* C6 as amended: the operation fails with the command error, and Motor
\* Position is as before, except when the refused command is offset's own
\* offset command: then it is (position before + num) mod SPR, where the
\* successful move has left it.
C6_ErrorKeepsPositionButOffset ==
    (op \in ControllerOps /\ SawError) =>
        /\ err = "CommandError"
        /\ IF op = "offset" /\ Len(io) = 3
           THEN position = Some((Val(pos0) + Val(arg)) % Val(SPR))
           ELSE position = pos0

\* The firmware refused a move command that a motion operation had written.
C6_Witness ==
    /\ op \in MotionOps
    /\ Len(io) = 2
    /\ io[2].name = "move"
    /\ io[2].status = "error"
    /\ err = "CommandError"
    /\ pos0 # None

(***************************************************************************)
(* C7.  As claimed: move, step and offset called in Disconnected or in     *)
(* Connected-Disabled fail with the not-enabled error, write no move       *)
(* command and leave Motor Position unchanged.  (None of the three changes *)
(* is_open or dev_enabled, so both are as they were at the call.)  On a    *)
(* closed port it is the write of is_enabled that fails.                   *)
(***************************************************************************)
C7_NotEnabledError ==
    (op \in {"move", "step", "offset"} /\ ~(is_open /\ dev_enabled)) =>
        /\ err = "NotEnabled"
        /\ ~Wrote("move")
        /\ position = pos0

\* C7 as amended: the operation fails, writes no move command and leaves
\* Motor Position unchanged; the failure is the not-enabled error exactly when
\* the port is open and is_enabled was answered with status ok; on a closed
\* port it is the port's own error (or, for step before the first connect,
\* the TypeError of None / samples), and otherwise the error of the
\* is_enabled query.
C7_FailsWithoutMoving ==
    (op \in {"move", "step", "offset"} /\ ~(is_open /\ dev_enabled)) =>
        /\ err # "none"
        /\ ~Wrote("move")
        /\ position = pos0
        /\ (err = "NotEnabled") <=> (is_open /\ Len(io) = 1 /\ io[1].status = "ok")
        /\ ~is_open => (io = <<>> /\ err \in {"PortNotOpen", "TypeError"})
        /\ (is_open /\ err # "NotEnabled") =>
               (Len(io) = 1 /\ err = StatusErr(io[1].status))

\* move was called with the port open and the motor disabled, at a known
\* position.
C7_Witness ==
    /\ op = "move"
    /\ is_open
    /\ ~dev_enabled
    /\ err = "NotEnabled"
    /\ pos0 # None

(***************************************************************************)
(* C8.  As claimed: when move, step, goto or offset fails a precondition   *)
(* (not enabled, invalid sample), nothing has been written to or read from *)
(* the device during the operation.  The not-enabled check is itself a     *)
(* command: is_enabled is written and its reply decoded.                   *)
(***************************************************************************)
C8_PreconditionBeforeIO ==
    (op \in MotionOps /\ err \in {"NotEnabled", "InvalidSample"}) => io = <<>>

\* C8 as amended: the invalid-sample error is raised before any I/O; the
\* not-enabled error is raised after exactly one is_enabled command has been
\* written and answered with status ok, and before anything else is written.
C8_PreconditionBeforeMotionIO ==
    op \in MotionOps =>
        /\ err = "InvalidSample" => io = <<>>
        /\ err = "NotEnabled" =>
               io = <<[name |-> "is_enabled", args |-> <<>>, status |-> "ok"]>>

\* goto, with a valid target and a known position, found the motor disabled.
C8_Witness ==
    /\ op = "goto"
    /\ err = "NotEnabled"
    /\ dist # None
    /\ Len(io) = 1

(***************************************************************************)
(* C9.  goto(num) with num < 0 or num > sample_count fails with the        *)
(* invalid-sample error, writes no command and leaves Motor Position       *)
(* unchanged; no num in 0..sample_count fails with that error.             *)
(***************************************************************************)
C9_GotoRange ==
    op = "goto" =>
        IF Val(arg) < 0 \/ Val(arg) > samples
        THEN err = "InvalidSample" /\ io = <<>> /\ position = pos0
        ELSE err # "InvalidSample"

\* goto(sample_count + 1) was refused while the holder was connected, enabled
\* and at a known position.
C9_Witness ==
    /\ op = "goto"
    /\ arg = Some(samples + 1)
    /\ err = "InvalidSample"
    /\ is_open
    /\ dev_enabled
    /\ position # None

(***************************************************************************)
(* C10.  offset(num) in Connected-Enabled, when every invocation it makes  *)
(* succeeds, writes a move command with num and then an offset command     *)
(* with -num, and leaves Motor Position equal to its value before the      *)
(* call.  With Motor Position None (enable succeeded, get_pos did not) the *)
(* move is written and acknowledged, position + steps raises, and the      *)
(* offset command is never written.                                        *)
(***************************************************************************)
C10_OffsetMovesThenCompensates ==
    (op = "offset" /\ is_open /\ dev_enabled /\ AllOk) =>
        /\ \E i \in 1..Len(io) : \E j \in 1..Len(io) :
               /\ i < j
               /\ io[i].name = "move"
               /\ io[i].args = <<Val(arg)>>
               /\ io[j].name = "offset"
               /\ io[j].args = <<-Val(arg)>>
        /\ position = pos0

(***************************************************************************)
(* C11.  connect() on a closed port ends with the port open whether or not *)
(* the get_spr query succeeds: exactly one command, get_spr, is written;   *)
(* when it is answered ok, SPR is the value the firmware answered and no   *)
(* error is raised; when it is answered with status error, times out or    *)
(* cannot be decoded, SPR is the configured default, the port stays open   *)
(* and the caller gets the could-not-get-SPR error.                        *)
(***************************************************************************)
C11_ConnectFallsBack ==
    (op = "connect" /\ err # "AlreadyConnected") =>
        /\ is_open
        /\ Len(io) = 1
        /\ io[1].name = "get_spr"
        /\ IF io[1].status = "ok"
           THEN err = "none" /\ spr_reply # None /\ SPR = spr_reply
           ELSE err = "SprQueryFailed" /\ SPR = Some(DEFAULT_SPR)

\* A reconnect whose get_spr reply could not be decoded replaced the SPR the
\* previous session had adopted by the default.
C11_Witness ==
    /\ op = "connect"
    /\ err = "SprQueryFailed"
    /\ io[1].status = "malformed"
    /\ is_open
    /\ position # None
    /\ SPR = Some(DEFAULT_SPR)
    /\ Val(position) >= DEFAULT_SPR

(***************************************************************************)
(* C12.  After disconnect, Motor Position is None and SPR is the           *)
(* configured default, so that after any connect Motor Position is None    *)
(* until the first successful enable or home.  disconnect closes the port  *)
(* and assigns nothing; a reconnect starts with the old position.          *)
(***************************************************************************)
C12_DisconnectResets ==
    /\ op = "disconnect" => (position = None /\ SPR = Some(DEFAULT_SPR))
    /\ (op = "connect" /\ err # "AlreadyConnected") => position = None

(***************************************************************************)
(* C13.  Setting port, baud or timeout while the port is open fails with   *)
(* the configuration-locked error and leaves the stored parameters and the *)
(* transport's settings unchanged, whatever the firmware answers.  The     *)
(* guard is the firmware's answer to an is_connected command.              *)
(***************************************************************************)
SetOps == {"set_port", "set_baud", "set_timeout"}

C13_LockedWhileOpen ==
    [][(is_open /\ op' \in SetOps) =>
          (err' = "ConfigurationLocked" /\ UNCHANGED <<setVars, instVars>>)]_vars

(***************************************************************************)
(* C14.  While the port is closed, setting port, baud or timeout succeeds, *)
(* and reading the parameter afterwards returns the value just set.  (No   *)
(* setter opens or closes the port.)  The guard writes is_connected to the *)
(* closed port, and the timeout getter returns the baud rate.              *)
(***************************************************************************)
C14_SetWhileClosed ==
    /\ (op = "set_port" /\ ~is_open) =>
           (err = "none" /\ ParamGet("port") = Val(arg))
    /\ (op = "set_baud" /\ ~is_open) =>
           (err = "none" /\ ParamGet("baud") = Val(arg))
    /\ (op = "set_timeout" /\ ~is_open) =>
           (err = "none" /\ ParamGet("timeout") = Val(arg))

(***************************************************************************)
(* C15.  The connection-state query, is_connected() or the connected       *)
(* property, returns whether the port is open, open or closed, and writes  *)
(* and reads nothing.  is_connected() is a command sent to the firmware.   *)
(***************************************************************************)
C15_ConnectionQueryIsPure ==
    op \in {"is_connected", "connected"} =>
        (err = "none" /\ io = <<>> /\ ret = Some(is_open))

(***************************************************************************)
(* C16.  connect() while the port is open fails with the already-connected *)
(* error, writes no get_spr (nothing at all), and leaves the port open and *)
(* SPR and Motor Position unchanged.                                       *)
(***************************************************************************)
C16_ConnectWhileOpen ==
    [][(is_open /\ op' = "connect") =>
          /\ err' = "AlreadyConnected"
          /\ io' = <<>>
          /\ is_open'
          /\ SPR' = SPR
          /\ position' = position]_vars

\* connect() was refused in a session that had adopted an SPR other than the
\* default and knew its position.
C16_Witness ==
    /\ op = "connect"
    /\ err = "AlreadyConnected"
    /\ is_open
    /\ position # None
    /\ SPR # Some(DEFAULT_SPR)

(***************************************************************************)
(* C17.  read_response declares a read timeout only once read_attempts     *)
(* consecutive reads have added nothing to the buffer: a decode cycle in   *)
(* which every run of consecutive idle reads is shorter than read_attempts *)
(* does not end in a timeout.  The code counts every idle read of the      *)
(* cycle, consecutive or not.                                              *)
(***************************************************************************)
C17_TimeoutOnlyAfterConsecutive ==
    (rd_pc = "done" /\ rd_maxrun < read_attempts) => rd_err # "ReadTimeout"

\* As the code has it: a decode cycle ends in a read timeout exactly when
\* read_attempts of its reads, in total, added nothing to the buffer; with
\* fewer idle reads it ends with the buffer closed by "}".
C17_TimeoutAfterTotal ==
    rd_pc = "done" =>
        /\ rd_err = "ReadTimeout" <=> rd_idle = read_attempts
        /\ rd_idle < read_attempts =>
               (rd_resp # <<>> /\ rd_resp[Len(rd_resp)] = "}")

\* A timeout after idle reads that were never consecutive, with the closing
\* "}" the next byte of the answer.
C17_Witness ==
    /\ rd_pc = "done"
    /\ rd_err = "ReadTimeout"
    /\ read_attempts = 2
    /\ rd_maxrun = 1
    /\ rd_resp = <<"{", "x">>
    /\ rd_wire = <<"{", "x", "}">>

(***************************************************************************)
(* C18.  For every read_attempts > 0, a decode cycle in which no byte      *)
(* arrives ends in the read timeout after exactly read_attempts reads, all *)
(* idle; and no decode cycle makes more than read_attempts idle reads.     *)
(***************************************************************************)
C18_IdleBudget ==
    /\ rd_idle <= read_attempts
    /\ (rd_pc = "done" /\ rd_resp = <<>>) =>
           /\ rd_err = "ReadTimeout"
           /\ rd_reads = read_attempts
           /\ rd_idle = rd_reads

\* The device sent nothing, and the largest read_attempts ran out.
C18_Witness ==
    /\ rd_pc = "done"
    /\ rd_wire = <<>>
    /\ rd_resp = <<>>
    /\ read_attempts = MaxReadAttempts
    /\ rd_reads = MaxReadAttempts
    /\ rd_err = "ReadTimeout"

(***************************************************************************)
(* C19.  For every read_attempts > 0 and every answer, when each read      *)
(* returns the next byte of the answer with no idle read in between, run   *)
(* does not end in the read timeout, and the buffer handed to the decoder  *)
(* is the answer up to and including its first "}".                        *)
(***************************************************************************)
FirstClose(w) == CHOOSE i \in 1..Len(w) :
                     w[i] = "}" /\ \A k \in 1..(i - 1) : w[k] # "}"

C19_NoGapsNoTimeout ==
    /\ (rd_pc = "reading" /\ rd_idle = 0) => rd_attempts = 0
    /\ (rd_pc = "done" /\ rd_idle = 0) =>
           /\ rd_err # "ReadTimeout"
           /\ \E i \in 1..Len(rd_wire) : rd_wire[i] = "}"
           /\ rd_resp = SubSeq(rd_wire, 1, FirstClose(rd_wire))

\* An answer longer than read_attempts, with bytes after its first "}", read
\* without a gap.
C19_Witness ==
    /\ rd_pc = "done"
    /\ rd_idle = 0
    /\ read_attempts = 1
    /\ rd_resp = <<"{", "x", "}">>
    /\ rd_wire = <<"{", "x", "}", "}">>
    /\ rd_err = "none"

(***************************************************************************)
(* C20.  run on a decoded response (an object with its required fields     *)
(* status and command): it fails with the command error iff status is      *)
(* error, every other status being a success; otherwise it returns the     *)
(* pair (response, id) when both are present, the one present when exactly *)
(* one is, and nothing when neither is.                                    *)
(***************************************************************************)
C20_RunResult ==
    (rd_pc = "done" /\ rd_json # None) =>
        LET j == Val(rd_json)
        IN  (j.status # None /\ j.command) =>
              /\ rd_err \in {"none", "CommandError"}
              /\ rd_err = "CommandError" <=> Val(j.status) = "error"
              /\ rd_err = "none" =>
                    rd_ret = IF j.response # None /\ j.id # None
                             THEN <<Val(j.response), Val(j.id)>>
                             ELSE IF j.response # None THEN j.response
                             ELSE IF j.id # None THEN j.id
                             ELSE None

\* A status that is neither ok nor error, with both values present.
C20_Witness ==
    /\ rd_pc = "done"
    /\ rd_json # None
    /\ Val(rd_json).status = Some("busy")
    /\ Val(rd_json).command
    /\ rd_err = "none"
    /\ rd_ret = <<"1", "7">>

(***************************************************************************)
(* C21.  For every command name and every argument list, the empty one     *)
(* included, the bytes run writes are "run[ ", the name, ", " and the      *)
(* textual form of each argument in order, " ]", and then the terminator   *)
(* if and only if one is set; with no argument and no terminator, home is  *)
(* written as "run[ home ]".                                               *)
(***************************************************************************)
\* The arguments of a command as the device is to see them, last one first.
RECURSIVE ArgsOnWire(_)
ArgsOnWire(args) ==
    IF Len(args) = 0 THEN ""
    ELSE ArgsOnWire(SubSeq(args, 1, Len(args) - 1))
             \o ", " \o Text(args[Len(args)])

C21_CommandBytes ==
    (op = "run" /\ written # None) =>
        LET c == Val(arg)
            w == Val(written)
        IN  /\ termination_char = None =>
                   w = "run[ " \o c.name \o ArgsOnWire(c.args) \o " ]"
            /\ termination_char # None =>
                   w = "run[ " \o c.name \o ArgsOnWire(c.args) \o " ]"
                           \o Val(termination_char)
            /\ (termination_char = None /\ c.name = "home" /\ c.args = <<>>)
                   => w = "run[ home ]"
            /\ (termination_char = Some("\n") /\ c.name = "move"
                    /\ c.args = <<[t |-> "float", v |-> 2]>>)
                   => w = "run[ move, 2.0 ]\n"

\* Two arguments, one of them negative, written without a terminator.
C21_Witness ==
    /\ op = "run"
    /\ termination_char = None
    /\ written = Some("run[ offset, -1, 4 ]")
    /\ err = "none"

(***************************************************************************)
(* C22.  One request at a time: within every controller operation, each    *)
(* command written is followed by one complete decode cycle (a decoded     *)
(* response, a read timeout or a malformed response) before the next one   *)
(* is written, a next command is written only after the previous cycle     *)
(* returned, and no command is written twice as a retry.                   *)
(***************************************************************************)
C22_OneRequestAtATime ==
    \A i \in 1..Len(io) :
        /\ io[i].status \in Status
        /\ i < Len(io) => io[i].status = "ok"
        /\ \A j \in 1..Len(io) : j # i => io[j].name # io[i].name

\* offset wrote its three commands and gave up at the timeout of the last.
C22_Witness ==
    /\ op = "offset"
    /\ Len(io) = 3
    /\ io[1].name = "is_enabled"
    /\ io[2].name = "move"
    /\ io[3].name = "offset"
    /\ io[3].status = "timeout"
    /\ err = "ReadTimeout"

(***************************************************************************)
(* C24.  enable() writes enable and then get_pos, in that order; when      *)
(* enable fails, get_pos is not written and the position is unchanged;     *)
(* when both succeed the position is the value get_pos returned; and no    *)
(* other operation of the controller writes get_pos.                       *)
(***************************************************************************)
C24_EnableThenGetPos ==
    /\ op # "enable" => ~Wrote("get_pos")
    /\ op = "enable" =>
          /\ Len(io) <= 2
          /\ Len(io) >= 1 => io[1].name = "enable"
          /\ Len(io) = 2 => (io[1].status = "ok" /\ io[2].name = "get_pos")
          /\ (Len(io) >= 1 /\ io[1].status = "ok") => Len(io) = 2
          /\ (Len(io) = 1 \/ ~AllOk) => position = pos0
          /\ (Len(io) = 2 /\ AllOk) =>
                 (err = "none" /\ pos_reply # None /\ position = pos_reply)

\* enable succeeded on a controller that knew another position.
C24_Witness ==
    /\ op = "enable"
    /\ err = "none"
    /\ Len(io) = 2
    /\ pos0 # None
    /\ position # pos0
    /\ position = pos_reply

(***************************************************************************)
(* C25.  home(), with the port open, the motor enabled or not, and from    *)
(* any position, None included, sets the position to 0 when the home       *)
(* command succeeds, so that sample is 0 right after it; it changes        *)
(* neither SPR nor the state of the connection.                            *)
(***************************************************************************)
C25_HomeZeroes ==
    [][op' = "home" =>
          /\ SPR' = SPR
          /\ is_open' = is_open
          /\ (is_open /\ err' = "none") =>
                 (position' = Some(0) /\ (Sample(position))' = Some(0))
          /\ (is_open /\ io'[1].status = "ok") => err' = "none"]_vars

\* home succeeded with the motor disabled and no position known.
C25_Witness ==
    /\ op = "home"
    /\ err = "none"
    /\ pos0 = None
    /\ ~dev_enabled
    /\ position = Some(0)
    /\ Sample(position) = Some(0)

(***************************************************************************)
(* C27.  Sample alignment: with SPR a positive multiple of the sample      *)
(* count, a successful home() leaves the position on a multiple of         *)
(* SPR / samples, and every successful step, goto or offset from such a    *)
(* position ends on one again, SPR being unchanged; hence the position is  *)
(* such a multiple after home and any sequence of successful step, goto    *)
(* and offset operations.                                                  *)
(***************************************************************************)
Aligned(p, spr) ==
    /\ p # None
    /\ spr # None
    /\ Val(spr) > 0
    /\ Val(spr) % samples = 0
    /\ Val(p) % (Val(spr) \div samples) = 0

C27_SampleAlignment ==
    [][/\ (op' = "home" /\ err' = "none" /\ SPR # None /\ Val(SPR) % samples = 0)
           => Aligned(position', SPR')
       /\ (op' \in {"step", "goto", "offset"} /\ err' = "none"
              /\ Aligned(position, SPR))
           => Aligned(position', SPR')]_vars

\* A successful offset by a step count that is no multiple of the sector
\* width, from a sample other than 0.
C27_Witness ==
    /\ op = "offset"
    /\ err = "none"
    /\ Val(SPR) = 2 * samples
    /\ Val(arg) = -1
    /\ position = pos0
    /\ Val(position) # 0
    /\ Aligned(position, SPR)

(***************************************************************************)
(* C26.  The response run decodes and returns, or raises the command error *)
(* from, is the device's answer to the command this same run wrote: no     *)
(* byte of the decoded buffer was sent in answer to an earlier command.    *)
(* run writes without discarding the input an earlier run left unread.     *)
(***************************************************************************)
C26_ResponseIsOwn ==
    (rd_pc = "done" /\ rd_err \in {"none", "CommandError"}) => rd_stale = 0

(***************************************************************************)
(* C23.  Whatever the device sends, a stream that keeps delivering bytes   *)
(* none of which is "}" included, every decode cycle run starts eventually *)
(* ends, with a decoded response or with a failure.  The loop counts idle  *)
(* reads only, so a device that never pauses and never sends "}" keeps it  *)
(* reading for ever.                                                       *)
(***************************************************************************)
C23_DecodeCycleEnds == (rd_pc = "reading") ~> (rd_pc = "done")

====
